---- MODULE Spec2Model ----
(***************************************************************************)
(* Model of the intent-routing chatbot: the CLI loop `main`, the compiled  *)
(* LangGraph workflow (classifier -> one responder -> END) and the state   *)
(* channels (messages with the id-merging reducer, intent as last value).  *)
(* Both variants of the program are modelled: src/src/index.ts (three      *)
(* labels) and src/unnamed/part_001 (four labels and the contact list).    *)
(* The external model calls are black boxes: a call either returns one of  *)
(* a small set of values or rejects.                                       *)
(***************************************************************************)
EXTENDS Integers, Sequences, FiniteSets, TLC

VARIABLES
    variant,      \* which program runs: "basic" (index.ts) or "contact" (part_001)
    contacts,     \* module-level `contacts` list (part_001 only; <<>> in basic)
    mainPc,       \* position of main(): prompt, line, await, closed, failed
    userInput,    \* the line the prompt resolved with
    state,        \* main's local `state`: [messages, intent]
    node,         \* position of the running graph: idle, classifier, branch, a responder
    chan,         \* channel values of the running graph invocation
    nextId,       \* source of fresh message ids (uuid / provider ids)
    turn,         \* number of graph invocations started
    ran,          \* nodes started in the current (or last) invocation, in order
    calls,        \* external calls issued in the current (or last) invocation
    outstanding,  \* external calls issued and not yet settled
    typed,        \* the non-exit lines read so far, in order
    classified,   \* label returned by the classification call of this invocation
    sent          \* content of the `last` message handed to the latest external call

vars == <<variant, contacts, mainPc, userInput, state, node, chan, nextId,
          turn, ran, calls, outstanding, typed, classified, sent>>

----------------------------------------------------------------------------
(* Bounds *)

MaxTurns == 2

----------------------------------------------------------------------------
(* Values *)

Undefined == "undefined"
NoNode == "no_destination"
END == "__end__"
NoId == 0

Variants == {"basic", "contact"}

\* z.enum([...]) of the classifier schema
Labels(v) ==
    IF v = "contact"
    THEN {"emotional", "logical", "general", "contact_request"}
    ELSE {"emotional", "logical", "general"}

\* a string that is in neither enumeration
Unrecognized == "spam"

\* nodes added with addNode besides the classifier
Responders(v) ==
    IF v = "contact"
    THEN {"logical", "emotional", "general", "contact_request"}
    ELSE {"logical", "emotional", "general"}

\* let contacts: Contact[] = [...]
InitialContacts ==
    << [name |-> "Andi", phone |-> "08123456789", city |-> "Makassar"],
       [name |-> "Budi", phone |-> "08987654321", city |-> "Bone"] >>

\* Lines are sequences of characters, so that lower-casing is computed.
ExitLines ==
    { <<"e","x","i","t">>, <<"E","X","I","T">>, <<"E","x","i","T">> }

OtherLines ==
    { <<>>, <<" ","e","x","i","t">>, <<"H","i">> }

Lines == ExitLines \cup OtherLines

\* texts the generation call may return
Replies == { <<"o","k">>, <<"H","i">> }

----------------------------------------------------------------------------
(* String helpers *)

\* String.prototype.toLowerCase on one character
LowerChar(c) ==
    CASE c = "E" -> "e"
      [] c = "X" -> "x"
      [] c = "I" -> "i"
      [] c = "T" -> "t"
      [] c = "H" -> "h"
      [] OTHER -> c

toLowerCase(s) == [i \in 1..Len(s) |-> LowerChar(s[i])]

\* a trimming comparison: what the exit test would be with .trim()
IsExitTrimmed(line) ==
    LET low == toLowerCase(line)
        body == IF Len(low) > 0 /\ low[1] = " " THEN Tail(low) ELSE low
    IN  body = <<"e","x","i","t">>

\* a case-sensitive comparison: the exit test without toLowerCase()
IsExitCaseSensitive(line) == line = <<"e","x","i","t">>

\* userInput.toLowerCase() === "exit"
IsExit(line) == toLowerCase(line) = <<"e","x","i","t">>

----------------------------------------------------------------------------
(* Messages and the messages channel *)

HumanMessage(text) == [role |-> "user", content |-> text, id |-> NoId]
AIMessage(text, i) == [role |-> "assistant", content |-> text, id |-> i]

\* number of messages that have no id yet
RECURSIVE CountNoId(_)
CountNoId(ms) ==
    IF ms = <<>> THEN 0
    ELSE (IF Head(ms).id = NoId THEN 1 ELSE 0) + CountNoId(Tail(ms))

\* the reducer gives every message without an id a fresh one
RECURSIVE AssignIds(_, _)
AssignIds(ms, nid) ==
    IF ms = <<>> THEN <<>>
    ELSE IF Head(ms).id = NoId
         THEN <<[Head(ms) EXCEPT !.id = nid]>> \o AssignIds(Tail(ms), nid + 1)
         ELSE <<Head(ms)>> \o AssignIds(Tail(ms), nid)

IndexOfId(ms, i) ==
    IF \E k \in 1..Len(ms) : ms[k].id = i
    THEN CHOOSE k \in 1..Len(ms) : ms[k].id = i /\ \A j \in 1..(k-1) : ms[j].id # i
    ELSE 0

\* a reducer that concatenates instead of merging by id
MessagesConcat(left, right) == left \o right

\* messagesStateReducer: a right message replaces the left message with the
\* same id in place, otherwise it is appended
RECURSIVE MessagesReducer(_, _)
MessagesReducer(left, right) ==
    IF right = <<>> THEN left
    ELSE LET m == Head(right)
             k == IndexOfId(left, m.id)
         IN  IF k # 0
             THEN MessagesReducer([left EXCEPT ![k] = m], Tail(right))
             ELSE MessagesReducer(Append(left, m), Tail(right))

\* writes of one node applied to the channels: messages reduced, intent replaced
ApplyWrites(ch, update) ==
    [messages |-> MessagesReducer(ch.messages, update.messages),
     intent   |-> update.intent]

Last(ms) == ms[Len(ms)]

----------------------------------------------------------------------------
(* Nodes and edges of the workflow *)

\* a classifier that keeps a label already present in the state
ClassifierKeepsOld(st, label) ==
    [st EXCEPT !.intent = IF st.intent = Undefined THEN label ELSE st.intent]

\* a classifier that also stores the classification reply in the history
ClassifierStoresReply(st, label) ==
    [st EXCEPT !.intent = label,
               !.messages = Append(@, AIMessage(<<"o","k">>, 1000 + Len(@)))]

\* a classifier that returns the state without the label
ClassifierDropsIntent(st, label) == st

\* classifierNode: return { ...state, intent: resp.intent }
classifierNode(st, label) == [st EXCEPT !.intent = label]

\* a responder that also stores the prompt message it built
ResponderStoresPrompt(st, resp) ==
    [st EXCEPT !.messages =
        @ \o << [role |-> "user", content |-> Last(@).content, id |-> 1000 + resp.id],
                resp >>]

\* logicalNode / emotionalNode / generalNode / contactNode:
\* return { ...state, messages: [...state.messages, resp] }
responderNode(st, resp) == [st EXCEPT !.messages = Append(st.messages, resp)]

\* a contact node that also records the asked name in the list
NodeContactsAdds(n, cs) ==
    IF n = "contact_request"
    THEN Append(cs, [name |-> "new", phone |-> "0", city |-> "-"])
    ELSE cs

\* effect of a responder on the module-level contacts list: contactNode only
\* serialises it into the prompt, the other nodes never name it
NodeContacts(n, cs) == cs

\* addEdge(START, "classifier")
EntryNode == "classifier"

\* a routing function without the `?? "logical"` fallback
DispatchNoFallback(v, intent) ==
    IF intent \in Responders(v) THEN intent ELSE NoNode

\* addConditionalEdges("classifier", (state) => state.intent ?? "logical", {...}):
\* the key is the label, or "logical" when the label is undefined; a key with
\* no entry in the path map has no destination
Dispatch(v, intent) ==
    LET key == IF intent = Undefined THEN "logical" ELSE intent
    IN  IF key \in Responders(v) THEN key ELSE NoNode

\* an edge from every responder back to the classifier
EdgeAfterLoops(n) == "classifier"

\* addEdge("logical", END), addEdge("emotional", END), ...
EdgeAfter(n) == END

----------------------------------------------------------------------------
(* main *)

\* main with the history rebuilt from the new message only
PushUserResets(ms, text) == <<HumanMessage(text)>>

\* state.messages.push(new HumanMessage(userInput))
PushUser(ms, text) == Append(ms, HumanMessage(text))

\* a main that catches the rejection and prompts again
OnInvokeRejectedCaught == "prompt"

\* `await app.invoke(state)` rejects inside main(), and `main();` has no
\* catch: the loop is abandoned
OnInvokeRejected == "failed"

\* a main that does not await the invocation
AfterInvokeNoAwait == "prompt"

\* state = await app.invoke(state): main is suspended until the graph settles
AfterInvoke == "await"

Init ==
    /\ variant \in Variants
    /\ contacts = IF variant = "contact" THEN InitialContacts ELSE <<>>
    /\ mainPc = "prompt"
    /\ userInput = <<>>
    /\ state = [messages |-> <<>>, intent |-> Undefined]
    /\ node = "idle"
    /\ chan = [messages |-> <<>>, intent |-> Undefined]
    /\ nextId = 1
    /\ turn = 0
    /\ ran = <<>>
    /\ calls = 0
    /\ outstanding = 0
    /\ typed = <<>>
    /\ classified = Undefined
    /\ sent = <<>>

\* rl.question resolves with a line
ReadLine(line) ==
    /\ mainPc = "prompt"
    /\ turn < MaxTurns \/ IsExit(line)
    /\ mainPc' = "line"
    /\ userInput' = line
    /\ UNCHANGED <<variant, contacts, state, node, chan, nextId, turn, ran,
                   calls, outstanding, typed, classified, sent>>

\* if (userInput.toLowerCase() === "exit") break; rl.close()
ExitLoop ==
    /\ mainPc = "line"
    /\ IsExit(userInput)
    /\ mainPc' = "closed"
    /\ UNCHANGED <<variant, contacts, userInput, state, node, chan, nextId,
                   turn, ran, calls, outstanding, typed, classified, sent>>

\* push the user message, call app.invoke(state): the input is written to
\* fresh channels and the entry node issues the classification call
PushAndInvoke ==
    /\ mainPc = "line"
    /\ ~IsExit(userInput)
    /\ LET pushed   == PushUser(state.messages, userInput)
           assigned == AssignIds(pushed, nextId)
       IN  /\ state' = [state EXCEPT !.messages = assigned]
           /\ chan' = ApplyWrites([messages |-> <<>>, intent |-> Undefined],
                                  [messages |-> assigned, intent |-> state.intent])
           /\ nextId' = nextId + CountNoId(pushed)
           /\ sent' = Last(assigned).content
    /\ node' = EntryNode
    /\ ran' = <<EntryNode>>
    /\ calls' = 1
    /\ outstanding' = outstanding + 1
    /\ turn' = turn + 1
    /\ typed' = Append(typed, userInput)
    /\ classified' = Undefined
    /\ mainPc' = AfterInvoke
    /\ UNCHANGED <<variant, contacts, userInput>>

\* the structured-output call resolves with a label of the enumeration
ClassifierReturn(label) ==
    /\ node = "classifier"
    /\ outstanding > 0
    /\ chan' = ApplyWrites(chan, classifierNode(chan, label))
    /\ classified' = label
    /\ outstanding' = outstanding - 1
    /\ node' = "branch"
    /\ UNCHANGED <<variant, contacts, mainPc, userInput, state, nextId, turn,
                   ran, calls, typed, sent>>

\* the invocation rejects: the graph stops and main sees the rejection
Reject ==
    /\ node' = "idle"
    /\ mainPc' = OnInvokeRejected
    /\ UNCHANGED <<variant, contacts, userInput, state, chan, nextId, turn,
                   ran, calls, typed, classified, sent>>

\* the classification call fails or its result does not parse
ClassifierFail ==
    /\ node = "classifier"
    /\ outstanding > 0
    /\ outstanding' = outstanding - 1
    /\ Reject

\* start node n of the graph: it reads `last` and issues its external call
StartNode(n, ms) ==
    /\ node' = n
    /\ ran' = Append(ran, n)
    /\ calls' = calls + 1
    /\ outstanding' = outstanding + 1
    /\ sent' = Last(ms).content

\* the conditional edge after the classifier
ConditionalEdge ==
    /\ node = "branch"
    /\ LET dest == Dispatch(variant, chan.intent)
       IN  IF dest = NoNode
           THEN /\ Reject
                /\ UNCHANGED outstanding
           ELSE /\ StartNode(dest, chan.messages)
                /\ UNCHANGED <<variant, contacts, mainPc, userInput, state,
                               chan, nextId, turn, typed, classified>>

\* the generation call of the running responder resolves with a message
ResponderReturn(text) ==
    /\ node \in Responders(variant)
    /\ outstanding > 0
    /\ chan' = ApplyWrites(chan, responderNode(chan, AIMessage(text, nextId)))
    /\ nextId' = nextId + 1
    /\ contacts' = NodeContacts(node, contacts)
    /\ IF EdgeAfter(node) = END
       THEN /\ node' = "idle"
            /\ state' = chan'
            /\ mainPc' = "prompt"
            /\ outstanding' = outstanding - 1
            /\ UNCHANGED <<ran, calls, sent>>
       ELSE /\ StartNode(EdgeAfter(node), chan'.messages)
            /\ UNCHANGED <<state, mainPc>>
    /\ UNCHANGED <<variant, userInput, turn, typed, classified>>

\* the generation call fails
ResponderFail ==
    /\ node \in Responders(variant)
    /\ outstanding > 0
    /\ outstanding' = outstanding - 1
    /\ Reject

Next ==
    \/ \E line \in Lines : ReadLine(line)
    \/ ExitLoop
    \/ PushAndInvoke
    \/ \E label \in Labels(variant) : ClassifierReturn(label)
    \/ ClassifierFail
    \/ ConditionalEdge
    \/ \E text \in Replies : ResponderReturn(text)
    \/ ResponderFail

Spec == Init /\ [][Next]_vars

----------------------------------------------------------------------------
(* The dispatcher on its own: the conditional edge applied to any state the *)
(* classifier step could hand over, the label drawn from the enumeration,   *)
(* undefined, and strings outside the enumeration.                          *)

RouteIntents ==
    {"emotional", "logical", "general", "contact_request", Undefined, Unrecognized}

InitRoute ==
    /\ variant \in Variants
    /\ contacts = IF variant = "contact" THEN InitialContacts ELSE <<>>
    /\ mainPc = "await"
    /\ userInput \in OtherLines
    /\ \E i \in RouteIntents :
          /\ chan = [messages |-> AssignIds(<<HumanMessage(userInput)>>, 1),
                     intent |-> i]
          /\ classified = i
    /\ state = [messages |-> AssignIds(<<HumanMessage(userInput)>>, 1),
                intent |-> Undefined]
    /\ node = "branch"
    /\ nextId = 2
    /\ turn = 1
    /\ ran = <<EntryNode>>
    /\ calls = 1
    /\ outstanding = 0
    /\ typed = <<userInput>>
    /\ sent = userInput

NextRoute ==
    \/ ConditionalEdge
    \/ \E text \in Replies : ResponderReturn(text)
    \/ ResponderFail

SpecRoute == InitRoute /\ [][NextRoute]_vars

----------------------------------------------------------------------------
(* Helpers of the properties *)

\* role and text of every message, ids dropped
View(ms) == [i \in 1..Len(ms) |-> [role |-> ms[i].role, content |-> ms[i].content]]

IsPrefix(a, b) == Len(a) <= Len(b) /\ \A i \in 1..Len(a) : a[i] = b[i]

\* the lines that spell "exit" in some letter case
AnyCaseExit ==
    { l \in Lines : /\ Len(l) = 4
                    /\ l[1] \in {"e", "E"} /\ l[2] \in {"x", "X"}
                    /\ l[3] \in {"i", "I"} /\ l[4] \in {"t", "T"} }

\* the history as whoever holds it now sees it
History == IF node = "idle" THEN state.messages ELSE chan.messages

IsUser(m) == m.role = "user"

UserTexts(ms) ==
    LET us == SelectSeq(ms, IsUser) IN [i \in 1..Len(us) |-> us[i].content]

\* the graph stops without a final write: an external call failed
FailureStep == node # "idle" /\ node' = "idle" /\ chan' = chan

----------------------------------------------------------------------------
(* Properties *)

C2_ExitTerminates ==
    [][ /\ mainPc # "closed"
        /\ (mainPc = "line" /\ userInput \in AnyCaseExit) =>
              /\ mainPc' = "closed"
              /\ state' = state
              /\ node' = node /\ ran' = ran /\ calls' = calls
              /\ outstanding' = outstanding /\ turn' = turn ]_vars

C2_Witness ==
    /\ mainPc = "closed"
    /\ userInput = <<"E","X","I","T">>
    /\ Len(state.messages) = 2
    /\ calls = 2

\* C3: the history is append-only: every step leaves the role and text of
\* each message already in the history at its position, in main's state and
\* in the graph's channels.
C3_AppendOnly ==
    [][ /\ IsPrefix(View(state.messages), View(state'.messages))
        /\ IsPrefix(View(History), View(History')) ]_vars

C3_Witness ==
    /\ Len(state.messages) = 4
    /\ node = "idle"
    /\ state.messages[1].content = <<>>
    /\ state.messages[3].content = <<"H","i">>

\* C4: in every invocation the classifier runs first and once, then exactly
\* one responder, and nothing runs after it.
C4_OnePath ==
    /\ Len(ran) <= 2
    /\ Len(ran) >= 1 => ran[1] = "classifier"
    /\ Len(ran) = 2 => ran[2] \in Responders(variant)
    /\ node \in {"classifier", "branch"} => ran = <<"classifier">>
    /\ node \in Responders(variant) => ran = <<"classifier", node>>
    /\ (mainPc = "prompt" /\ turn > 0) => Len(ran) = 2
    /\ calls = Len(ran)

C4_Witness ==
    /\ mainPc = "prompt"
    /\ turn = 2
    /\ ran = <<"classifier", "emotional">>

\* C5: a completed turn returns the history passed in, which ends with the
\* new user message, followed by exactly one assistant message.
C5_OneAssistantMessage ==
    [][ (mainPc = "await" /\ mainPc' = "prompt") =>
           /\ Last(View(state.messages)) = [role |-> "user", content |-> userInput]
           /\ \E r \in Replies :
                 View(state'.messages) =
                     Append(View(state.messages), [role |-> "assistant", content |-> r])
      ]_vars

C5_Witness ==
    /\ mainPc = "prompt"
    /\ Len(state.messages) = 4
    /\ state.messages[4].role = "assistant"
    /\ state.messages[3].content = <<" ","e","x","i","t">>

\* C6: when an external call fails the turn fails: no retry and no further
\* call, no responder after a failed classification, main's history is left
\* without an assistant message, main is abandoned and takes no later step.
C6_FailureAbortsTurn ==
    [][ /\ mainPc # "failed"
        /\ FailureStep =>
              /\ mainPc' = "failed"
              /\ state' = state
              /\ Last(state'.messages).role = "user"
              /\ calls' = calls /\ ran' = ran /\ turn' = turn
              /\ outstanding' = 0
              /\ node = "classifier" => (ran = <<"classifier">> /\ calls = 1) ]_vars

C6_Witness ==
    /\ mainPc = "failed"
    /\ ran = <<"classifier">>
    /\ Len(state.messages) = 3

\* C7: turns are sequential: while a graph invocation runs main is suspended
\* on it, at most one external call is outstanding, and the user messages of
\* the history are the typed lines in order.
C7_Sequential ==
    /\ outstanding <= 1
    /\ node # "idle" => mainPc = "await"
    /\ mainPc \in {"prompt", "line", "closed", "failed"} =>
          (node = "idle" /\ outstanding = 0)
    /\ outstanding = 1 <=> node \in ({"classifier"} \cup Responders(variant))
    /\ UserTexts(state.messages) = typed

C7_Witness ==
    /\ turn = 2
    /\ node \in Responders(variant)
    /\ outstanding = 1
    /\ typed = << <<"H","i">>, <<>> >>

\* C8: a line that is not "exit" in some letter case (the empty line and
\* " exit" included) is appended as a user message with the typed text and
\* starts one turn; the loop closes only on such an "exit" line.
C8_OtherLinesForwarded ==
    [][ mainPc = "line" =>
           IF userInput \in AnyCaseExit
           THEN mainPc' = "closed"
           ELSE /\ View(state'.messages) =
                      Append(View(state.messages), [role |-> "user", content |-> userInput])
                /\ turn' = turn + 1
                /\ node = "idle" /\ node' = "classifier"
                /\ mainPc' = "await" ]_vars

C8_Witness ==
    /\ mainPc = "await"
    /\ typed = << <<>>, <<" ","e","x","i","t">> >>
    /\ Len(state.messages) = 3

\* C9: when a turn completes, main's intent is the label the classification
\* call returned in that turn, whatever the previous turn left there.
C9_IntentOverwritten ==
    [][ (mainPc = "await" /\ mainPc' = "prompt") =>
           /\ classified \in Labels(variant)
           /\ state'.intent = classified ]_vars

C9_Witness ==
    /\ mainPc = "prompt"
    /\ turn = 2
    /\ state.intent = "general"
    /\ Len(state.messages) = 4

\* C10: in the variant with contact lookup the contact list always equals
\* its two initial records, Andi then Budi.
C10_ContactsConstant ==
    variant = "contact" =>
        contacts = << [name |-> "Andi", phone |-> "08123456789", city |-> "Makassar"],
                      [name |-> "Budi", phone |-> "08987654321", city |-> "Bone"] >>

C10_Witness ==
    /\ variant = "contact"
    /\ mainPc = "prompt"
    /\ turn = 2
    /\ ran = <<"classifier", "contact_request">>

\* C11: each node changes only its own part of the state: the classifier
\* step leaves the history (and main's state) as it was and sets the label;
\* a responder step leaves the label as it was and appends one message; so
\* the message a responder reads as `last` is the user message of this turn.
C11_NodesOwnPart ==
    [][ /\ (node = "classifier" /\ node' = "branch") =>
              /\ chan'.messages = chan.messages
              /\ state' = state
              /\ chan'.intent = classified'
        /\ (node \in Responders(variant) /\ node' = "idle" /\ mainPc' = "prompt") =>
              /\ chan'.intent = chan.intent
              /\ state'.intent = chan.intent
              /\ Len(chan'.messages) = Len(chan.messages) + 1
              /\ IsPrefix(chan.messages, chan'.messages)
        /\ node' \in Responders(variant) =>
              /\ sent' = userInput
              /\ Last(chan'.messages).role = "user"
              /\ Last(chan'.messages).content = userInput ]_vars

C11_Witness ==
    /\ node \in Responders(variant)
    /\ turn = 2
    /\ sent = <<" ","e","x","i","t">>
    /\ Len(chan.messages) = 3
    /\ chan.messages[2].role = "assistant"

\* C12: whenever the dispatcher runs the label is a member of the
\* enumeration, never undefined, so the "logical" fallback is not taken and
\* the responder that runs is the one named by the label; once a turn has
\* completed, main's label is never undefined.
C12_FallbackNeverTaken ==
    /\ node = "branch" => chan.intent \in Labels(variant)
    /\ node \in Responders(variant) =>
          (chan.intent \in Labels(variant) /\ node = chan.intent)
    /\ (\E i \in 1..Len(state.messages) : state.messages[i].role = "assistant") =>
          state.intent \in Labels(variant)

C12_Witness ==
    /\ node = "branch"
    /\ turn = 2
    /\ chan.intent = "emotional"
    /\ state.intent = "logical"

\* C13: at every prompt, after k completed turns (every invocation started
\* has returned, so k = turn) the history has exactly 2k messages, user and
\* assistant alternating from a user message, the i-th user message being
\* the i-th non-exit line; before the first turn the history is empty and
\* the label undefined.
C13_AlternatingHistory ==
    mainPc = "prompt" =>
        /\ Len(state.messages) = 2 * turn
        /\ Len(typed) = turn
        /\ \A i \in 1..turn :
              /\ state.messages[2 * i - 1].role = "user"
              /\ state.messages[2 * i - 1].content = typed[i]
              /\ state.messages[2 * i].role = "assistant"
        /\ turn = 0 => state = [messages |-> <<>>, intent |-> Undefined]

C13_Witness ==
    /\ mainPc = "prompt"
    /\ turn = 2
    /\ typed = << <<" ","e","x","i","t">>, <<"H","i">> >>
    /\ state.messages[2].content = <<"H","i">>
    /\ Len(state.messages) = 4

====
